---- MODULE Spec2Model ----
(***************************************************************************)
(* Model of the experiment runner of src/scientist.go: Run, observe,       *)
(* processObservation, matching and ignoring.  An experiment runs a        *)
(* control behaviour and its candidates, sequentially or concurrently,     *)
(* classifies every candidate against the control and hands the Result to  *)
(* the publish and error-report sinks.                                     *)
(*                                                                         *)
(* Wall-clock fields (Started, Runtime) and the back pointer Experiment of *)
(* an Observation are not modelled: no line of Run reads them.             *)
(***************************************************************************)
EXTENDS Integers, Sequences, FiniteSets, TLC

(***************************************************************************)
(* Bounds of the model.                                                    *)
(***************************************************************************)
\* number of candidate behaviours registered next to the control
NumCandidates == 2
\* longest list of ignore predicates an experiment is configured with
MaxIgnores == 2

(***************************************************************************)
(* Values of the program.                                                  *)
(***************************************************************************)
controlBehavior == "control"

\* the nil interface{} value
NIL == "nil"

\* the nil error; an error value is an object (id) carrying a text (msg)
NilErr == [id |-> "nil", msg |-> ""]

\* errors.New / fmt.Errorf: a fresh error object with the given text
newError(id, msg) == [id |-> id, msg |-> msg]

\* err.Error()
ErrorText(err) == err.msg

\* the nil *Observation
NilObs == [Name |-> "nil", Value |-> NIL, Err |-> NilErr]

\* names given to the candidates, in the order they are registered
CandidateNames == <<"candidate", "candidate2", "candidate3", "candidate4">>

\* the behaviours in registration order: Use(control), then Try(...) per candidate
Registered == <<controlBehavior>> \o SubSeq(CandidateNames, 1, NumCandidates)

\* the keys of the map e.behaviors
RegisteredNames == {Registered[k] : k \in 1..Len(Registered)}

\* values a behaviour returns
Values == {"1", "2"}

\* texts of the errors a behaviour returns
ErrTexts == {"ok", "try"}

\* what a call b() returns in a run: (v, nil), or (1, errors.New("ok")) as in
\* TestExperimentSkipCompareSameErrors; every call makes its own error object
BehaviorOutcomes(bname) ==
    {[v |-> v, err |-> NilErr] : v \in Values}
        \cup {[v |-> "1", err |-> newError(bname, "ok")]}

\* no call of the behaviour has returned
NoOutcome == [v |-> "none", err |-> NilErr]

\* comparators an experiment is configured with (by what they return)
Comparators == {"equal", "true", "false", "error", "trueError"}

\* ignore predicates an experiment is configured with (by what they return)
IgnoreKinds == {"false", "true", "two", "error"}

\* lists of ignore predicates of length 0..MaxIgnores
IgnoreLists == UNION {[1..n -> IgnoreKinds] : n \in 0..MaxIgnores}

\* the experiments Run is exercised with: their comparator and ignore predicates
RunConfigs ==
    {[comparator |-> "equal", ignores |-> [k \in 1..MaxIgnores |->
                                            IF k = MaxIgnores THEN "two" ELSE "false"]],
     [comparator |-> "error", ignores |-> [k \in 1..MaxIgnores |->
                                            IF k = MaxIgnores THEN "error" ELSE "false"]]}

\* e.comparator(control.Value, candidate.Value)
comparator(kind, a, b) ==
    CASE kind = "equal" -> [ok |-> a = b, err |-> NilErr]
      [] kind = "true" -> [ok |-> TRUE, err |-> NilErr]
      [] kind = "false" -> [ok |-> FALSE, err |-> NilErr]
      [] kind = "error" -> [ok |-> FALSE, err |-> newError("compare", "compare")]
      [] kind = "trueError" -> [ok |-> TRUE, err |-> newError("compare", "compare")]

\* e.ignores[k](control.Value, candidate.Value)
ignoreFn(kind, a, b) ==
    CASE kind = "false" -> [ok |-> FALSE, err |-> NilErr]
      [] kind = "true" -> [ok |-> TRUE, err |-> NilErr]
      [] kind = "two" -> [ok |-> b = "2", err |-> NilErr]
      [] kind = "error" -> [ok |-> FALSE, err |-> newError("ignore", "ignore")]

VARIABLES
    e,          \* the Experiment: behaviors, comparator, ignores, runConcurrently, timeout
    name,       \* Run's argument: the name of the control behaviour
    r,          \* the Result under construction
    pc,         \* position of the goroutine that executes Run
    i,          \* the index i of Run's loops (0-based, as in the source)
    todo,       \* behaviours the current range over e.behaviors has yet to visit
    exec,       \* sequential mode: the behaviour whose b() is executing, or NIL
    calls,      \* the calls made to the experiment's callbacks, in order
    returned,   \* what each behaviour's call b() returned, NoOutcome before it returns
    wrapper,    \* concurrent mode: position of the goroutine of lines 93-121, per behaviour
    inner,      \* concurrent mode: position of the goroutine of lines 103-106, per behaviour
    doneChan,   \* concurrent mode: the buffer (capacity 1) of each behaviour's doneChan
    ctxDone,    \* concurrent mode: whether each behaviour's ctx.Done() is closed
    resultChan, \* concurrent mode: the buffer of resultChan
    closed,     \* concurrent mode: whether resultChan is closed
    wg,         \* concurrent mode: the WaitGroup's counter
    ci          \* concurrent mode: index of the range over r.Candidates, lines 146-150

conc == <<wrapper, inner, doneChan, ctxDone, resultChan, closed, wg, ci>>

vars == <<e, name, r, pc, i, todo, exec, calls, returned, conc>>

(***************************************************************************)
(* Result and its predicates.                                              *)
(***************************************************************************)
\* e.resultErr(operation, err)
resultErr(operation, err) == [Operation |-> operation, Err |-> err]

IsMismatched(res) == Len(res.Mismatched) > 0

IsIgnored(res) == Len(res.Ignored) > 0

IsMatched(res) == ~(IsMismatched(res) \/ IsIgnored(res))

(***************************************************************************)
(* observe                                                                 *)
(***************************************************************************)
behaviorNotFound(bname) == newError(bname, "not found")

\* observe(e, bname, b) for a registered behaviour whose call returned out
observe(bname, out) == [Name |-> bname, Value |-> out.v, Err |-> out.err]

\* observe(e, bname, nil) when e.behaviors holds no bname
observeMissing(bname) == [Name |-> bname, Value |-> NIL, Err |-> behaviorNotFound(bname)]

(***************************************************************************)
(* Classification                                                          *)
(***************************************************************************)
\* matching with line 208 comparing the error objects instead of their texts
matchingByIdentity(ex, control, candidate) ==
    IF control.Err = NilErr /\ candidate.Err = NilErr
    THEN LET c == comparator(ex.comparator, control.Value, candidate.Value)
         IN  [ok |-> c.ok, err |-> c.err,
              calls |-> <<[fn |-> "compare", cand |-> candidate.Name, idx |-> 0]>>]
    ELSE IF control.Err # NilErr /\ candidate.Err # NilErr
    THEN [ok |-> control.Err = candidate.Err, err |-> NilErr, calls |-> <<>>]
    ELSE [ok |-> FALSE, err |-> NilErr, calls |-> <<>>]

matching(ex, control, candidate) ==
    IF control.Err = NilErr /\ candidate.Err = NilErr
    THEN LET c == comparator(ex.comparator, control.Value, candidate.Value)
         IN  [ok |-> c.ok, err |-> c.err,
              calls |-> <<[fn |-> "compare", cand |-> candidate.Name, idx |-> 0]>>]
    ELSE IF control.Err # NilErr /\ candidate.Err # NilErr
    THEN [ok |-> ErrorText(control.Err) = ErrorText(candidate.Err), err |-> NilErr,
          calls |-> <<>>]
    ELSE [ok |-> FALSE, err |-> NilErr, calls |-> <<>>]

RECURSIVE ignoringFromAll(_, _, _, _)
\* ignoring without the return of lines 222-224: a predicate that returns true
\* is remembered and the later predicates are still evaluated
ignoringFromAll(ex, control, candidate, k) ==
    IF k > Len(ex.ignores)
    THEN [ok |-> FALSE, err |-> NilErr, calls |-> <<>>]
    ELSE LET g == ignoreFn(ex.ignores[k], control.Value, candidate.Value)
             call == <<[fn |-> "ignore", cand |-> candidate.Name, idx |-> k]>>
         IN  IF g.err # NilErr
             THEN [ok |-> FALSE, err |-> g.err, calls |-> call]
             ELSE LET rest == ignoringFromAll(ex, control, candidate, k + 1)
                  IN  [rest EXCEPT !.calls = call \o rest.calls,
                                   !.ok = g.ok \/ rest.ok]

RECURSIVE ignoringFrom(_, _, _, _)
\* the loop of ignoring from predicate k on
ignoringFrom(ex, control, candidate, k) ==
    IF k > Len(ex.ignores)
    THEN [ok |-> FALSE, err |-> NilErr, calls |-> <<>>]
    ELSE LET g == ignoreFn(ex.ignores[k], control.Value, candidate.Value)
             call == <<[fn |-> "ignore", cand |-> candidate.Name, idx |-> k]>>
         IN  IF g.err # NilErr
             THEN [ok |-> FALSE, err |-> g.err, calls |-> call]
             ELSE IF g.ok
             THEN [ok |-> TRUE, err |-> NilErr, calls |-> call]
             ELSE LET rest == ignoringFrom(ex, control, candidate, k + 1)
                  IN  [rest EXCEPT !.calls = call \o rest.calls]

ignoring(ex, control, candidate) == ignoringFrom(ex, control, candidate, 1)

\* processObservation without the return of lines 183-185: a candidate that
\* matched goes on to the ignore predicates and into Ignored or Mismatched
processObservationNoReturn(ex, res, control, candidate) ==
    LET m == matching(ex, control, candidate)
        errs1 == IF m.err # NilErr
                 THEN Append(res.Errors, resultErr("compare", m.err))
                 ELSE res.Errors
        g == ignoring(ex, control, candidate)
        ignored == IF g.err # NilErr THEN FALSE ELSE g.ok
        errs2 == IF g.err # NilErr
                 THEN Append(errs1, resultErr("ignore", g.err))
                 ELSE errs1
    IN  [r |-> IF ignored
               THEN [res EXCEPT !.Errors = errs2,
                                !.Ignored = Append(res.Ignored, candidate)]
               ELSE [res EXCEPT !.Errors = errs2,
                                !.Mismatched = Append(res.Mismatched, candidate)],
         calls |-> m.calls \o g.calls]

\* processObservation without the else branch of lines 195-197: a candidate
\* that neither matched nor was ignored is appended to no list
processObservationDropMismatch(ex, res, control, candidate) ==
    LET m == matching(ex, control, candidate)
        ok == IF m.err # NilErr THEN FALSE ELSE m.ok
        errs1 == IF m.err # NilErr
                 THEN Append(res.Errors, resultErr("compare", m.err))
                 ELSE res.Errors
    IN  IF ok
        THEN [r |-> [res EXCEPT !.Errors = errs1], calls |-> m.calls]
        ELSE LET g == ignoring(ex, control, candidate)
                 ignored == IF g.err # NilErr THEN FALSE ELSE g.ok
                 errs2 == IF g.err # NilErr
                          THEN Append(errs1, resultErr("ignore", g.err))
                          ELSE errs1
             IN  [r |-> IF ignored
                        THEN [res EXCEPT !.Errors = errs2,
                                         !.Ignored = Append(res.Ignored, candidate)]
                        ELSE [res EXCEPT !.Errors = errs2],
                  calls |-> m.calls \o g.calls]

\* processObservation with a return added after line 180: a comparator error
\* is recorded and ends the classification of the candidate
processObservationStopsOnError(ex, res, control, candidate) ==
    LET m == matching(ex, control, candidate)
        ok == IF m.err # NilErr THEN FALSE ELSE m.ok
        errs1 == IF m.err # NilErr
                 THEN Append(res.Errors, resultErr("compare", m.err))
                 ELSE res.Errors
    IN  IF ok \/ m.err # NilErr
        THEN [r |-> [res EXCEPT !.Errors = errs1], calls |-> m.calls]
        ELSE LET g == ignoring(ex, control, candidate)
                 ignored == IF g.err # NilErr THEN FALSE ELSE g.ok
                 errs2 == IF g.err # NilErr
                          THEN Append(errs1, resultErr("ignore", g.err))
                          ELSE errs1
             IN  [r |-> IF ignored
                        THEN [res EXCEPT !.Errors = errs2,
                                         !.Ignored = Append(res.Ignored, candidate)]
                        ELSE [res EXCEPT !.Errors = errs2,
                                         !.Mismatched = Append(res.Mismatched, candidate)],
                  calls |-> m.calls \o g.calls]

\* processObservation: the Result after it, and the callback calls it made
processObservation(ex, res, control, candidate) ==
    LET m == matching(ex, control, candidate)
        ok == IF m.err # NilErr THEN FALSE ELSE m.ok
        errs1 == IF m.err # NilErr
                 THEN Append(res.Errors, resultErr("compare", m.err))
                 ELSE res.Errors
    IN  IF ok
        THEN [r |-> [res EXCEPT !.Errors = errs1], calls |-> m.calls]
        ELSE LET g == ignoring(ex, control, candidate)
                 ignored == IF g.err # NilErr THEN FALSE ELSE g.ok
                 errs2 == IF g.err # NilErr
                          THEN Append(errs1, resultErr("ignore", g.err))
                          ELSE errs1
             IN  [r |-> IF ignored
                        THEN [res EXCEPT !.Errors = errs2,
                                         !.Ignored = Append(res.Ignored, candidate)]
                        ELSE [res EXCEPT !.Errors = errs2,
                                         !.Mismatched = Append(res.Mismatched, candidate)],
                  calls |-> m.calls \o g.calls]

(***************************************************************************)
(* Run                                                                     *)
(***************************************************************************)
numBehaviors == Cardinality(e.behaviors)

\* Result{Experiment: e}
EmptyResult ==
    [Control |-> NilObs, Observations |-> <<>>, Candidates |-> <<>>,
     Ignored |-> <<>>, Mismatched |-> <<>>, Errors |-> <<>>]

\* a panic that nothing recovers: Run returns no Result; its frame, and in
\* concurrent mode every goroutine and channel of the process, are gone
Panicked ==
    /\ pc' = "panic"
    /\ r' = EmptyResult
    /\ i' = 0
    /\ todo' = {}
    /\ exec' = NIL
    /\ wrapper' = [b \in RegisteredNames |-> "none"]
    /\ inner' = [b \in RegisteredNames |-> "none"]
    /\ doneChan' = [b \in RegisteredNames |-> <<>>]
    /\ ctxDone' = [b \in RegisteredNames |-> FALSE]
    /\ resultChan' = <<>>
    /\ closed' = FALSE
    /\ wg' = 0
    /\ ci' = 0
    /\ UNCHANGED <<e, name, calls, returned>>

\* the state when Run(e, name) is entered: r := Result{Experiment: e}
Init ==
    /\ \E cfg \in RunConfigs, mode \in {"sequential", "concurrent", "timeout"} :
         e = [behaviors |-> RegisteredNames,
              comparator |-> cfg.comparator,
              ignores |-> cfg.ignores,
              runConcurrently |-> mode # "sequential",
              timeout |-> mode = "timeout"]
    /\ name = controlBehavior
    /\ r = EmptyResult
    /\ pc = "before_run"
    /\ i = 0
    /\ todo = {}
    /\ exec = NIL
    /\ calls = <<>>
    /\ returned = [b \in RegisteredNames |-> NoOutcome]
    /\ wrapper = [b \in RegisteredNames |-> "none"]
    /\ inner = [b \in RegisteredNames |-> "none"]
    /\ doneChan = [b \in RegisteredNames |-> <<>>]
    /\ ctxDone = [b \in RegisteredNames |-> FALSE]
    /\ resultChan = <<>>
    /\ closed = FALSE
    /\ wg = 0
    /\ ci = 0

\* lines 61-63 with a return of the Result added after line 62: an error of
\* before_run ends the run before any behaviour is executed
BeforeRunAborts ==
    /\ pc = "before_run"
    /\ \E err \in {NilErr, newError("before_run", "before_run")} :
         /\ r' = [r EXCEPT
                    !.Errors = IF err # NilErr
                               THEN Append(r.Errors, resultErr("before_run", err))
                               ELSE r.Errors,
                    !.Candidates = [k \in 1..(numBehaviors - 1) |-> NilObs],
                    !.Observations = [k \in 1..numBehaviors |-> NilObs]]
         /\ calls' = Append(calls, [fn |-> "before_run", err |-> err])
         /\ pc' = IF err # NilErr THEN "done"
                  ELSE IF e.runConcurrently THEN "launch" ELSE "control"
    /\ todo' = e.behaviors
    /\ UNCHANGED <<e, name, i, exec, conc, returned>>

\* lines 61-72: e.beforeRun(), the four make(...) and the choice of the mode
BeforeRun ==
    /\ pc = "before_run"
    /\ \E err \in {NilErr, newError("before_run", "before_run")} :
         /\ r' = [r EXCEPT
                    !.Errors = IF err # NilErr
                               THEN Append(r.Errors, resultErr("before_run", err))
                               ELSE r.Errors,
                    !.Candidates = [k \in 1..(numBehaviors - 1) |-> NilObs],
                    !.Observations = [k \in 1..numBehaviors |-> NilObs]]
         /\ calls' = Append(calls, [fn |-> "before_run", err |-> err])
    /\ pc' = IF e.runConcurrently THEN "launch" ELSE "control"
    /\ todo' = e.behaviors
    /\ UNCHANGED <<e, name, i, exec, conc, returned>>

\* line 73: observe(e, name, e.behaviors[name]) calls the control's function,
\* or finds none registered and returns the behaviour-not-found observation
SeqControlCall ==
    /\ pc = "control"
    /\ IF name \in e.behaviors
       THEN /\ exec' = name
            /\ pc' = "control_run"
            /\ r' = r
       ELSE /\ r' = [r EXCEPT !.Control = observeMissing(name),
                              !.Observations[1] = observeMissing(name)]
            /\ pc' = "candidates"
            /\ exec' = exec
    /\ UNCHANGED <<e, name, i, todo, calls, conc, returned>>

\* lines 73-74: the control's function returns
SeqControlReturn ==
    /\ pc = "control_run"
    /\ \E out \in BehaviorOutcomes(name) :
         /\ r' = [r EXCEPT !.Control = observe(name, out),
                           !.Observations[1] = observe(name, out)]
         /\ returned' = [returned EXCEPT ![name] = out]
    /\ exec' = NIL
    /\ pc' = "candidates"
    /\ UNCHANGED <<e, name, i, todo, calls, conc>>

\* line 249: the executing behaviour panics; observe has no recover, so the
\* panic unwinds Run
SeqPanic ==
    /\ pc \in {"control_run", "candidate_run"}
    /\ Panicked

\* lines 77-81: the range picks the next behaviour (a Go map is ranged over in
\* no fixed order), skips the control, and calls the candidate's function
SeqCandidateCall ==
    /\ pc = "candidates"
    /\ todo \ {name} # {}
    /\ \E bname \in todo \ {name} :
         /\ exec' = bname
         /\ todo' = todo \ {bname}
    /\ pc' = "candidate_run"
    /\ UNCHANGED <<e, name, r, i, calls, conc, returned>>

\* lines 81-85 without line 85: the candidate is stored but not classified
SeqCandidateReturnUnclassified ==
    /\ pc = "candidate_run"
    /\ \E out \in BehaviorOutcomes(exec) :
         LET c == observe(exec, out)
         IN  IF i >= Len(r.Candidates)
             THEN Panicked
             ELSE /\ r' = [r EXCEPT !.Candidates[i + 1] = c,
                                    !.Observations[i + 2] = c]
                  /\ i' = i + 1
                  /\ exec' = NIL
                  /\ pc' = "candidates"
                  /\ returned' = [returned EXCEPT ![exec] = out]
                  /\ UNCHANGED <<e, name, todo, calls, conc>>

\* lines 81-85: the candidate returns, is stored at index i and classified;
\* a store past the end of r.Candidates panics
SeqCandidateReturn ==
    /\ pc = "candidate_run"
    /\ \E out \in BehaviorOutcomes(exec) :
         LET c == observe(exec, out)
         IN  IF i >= Len(r.Candidates)
             THEN Panicked
             ELSE LET stored == [r EXCEPT !.Candidates[i + 1] = c,
                                          !.Observations[i + 2] = c]
                      p == processObservation(e, stored, stored.Control, c)
                  IN  /\ r' = p.r
                      /\ calls' = calls \o p.calls
                      /\ i' = i + 1
                      /\ exec' = NIL
                      /\ pc' = "candidates"
                      /\ returned' = [returned EXCEPT ![exec] = out]
                      /\ UNCHANGED <<e, name, todo, conc>>

\* line 86: the range is exhausted
SeqLoopEnd ==
    /\ pc = "candidates"
    /\ todo \ {name} = {}
    /\ pc' = "publish"
    /\ todo' = {}
    /\ UNCHANGED <<e, name, r, i, exec, calls, conc, returned>>

(***************************************************************************)
(* Run, concurrent mode                                                    *)
(***************************************************************************)
\* ctx.Err() once a context made by context.WithTimeout has expired
deadlineExceeded == newError("context", "context deadline exceeded")

\* lines 113-119 without line 118: the timeout record carries no error
timeoutResultNoErr(bname) ==
    [name |-> bname,
     obs |-> [Name |-> bname, Value |-> NIL, Err |-> NilErr],
     err |-> NilErr]

\* lines 113-119: the message of a behaviour whose timeout fired
timeoutResult(bname) ==
    [name |-> bname,
     obs |-> [Name |-> bname, Value |-> NIL, Err |-> NilErr],
     err |-> deadlineExceeded]

\* line 110 with the loop variable's name lost: every message is sent under
\* the control's name
observationResultAsControl(bname, obs) ==
    [name |-> controlBehavior, obs |-> obs, err |-> NilErr]

\* line 110: the message of a behaviour that completed
observationResult(bname, obs) == [name |-> bname, obs |-> obs, err |-> NilErr]

\* lines 91-122 with the goroutine's body run inline: the range launches the
\* next behaviour only when the behaviours launched before it have finished
LaunchAfterPrevious ==
    /\ pc = "launch"
    /\ \A b \in e.behaviors : inner[b] # "running"
    /\ \E bname \in todo :
         /\ todo' = todo \ {bname}
         /\ wg' = wg + 1
         /\ wrapper' = [wrapper EXCEPT ![bname] = "select"]
         /\ inner' = [inner EXCEPT ![bname] = "running"]
    /\ UNCHANGED <<e, name, r, pc, i, exec, calls, doneChan, ctxDone, resultChan, closed, ci, returned>>

\* lines 91-106: the range launches the goroutine of the next behaviour (in the
\* map's order), which makes its context and doneChan and starts observe
Launch ==
    /\ pc = "launch"
    /\ \E bname \in todo :
         /\ todo' = todo \ {bname}
         /\ wg' = wg + 1
         /\ wrapper' = [wrapper EXCEPT ![bname] = "select"]
         /\ inner' = [inner EXCEPT ![bname] = "running"]
    /\ UNCHANGED <<e, name, r, pc, i, exec, calls, doneChan, ctxDone, resultChan, closed, ci, returned>>

\* lines 124-129: all goroutines are launched; the closer goroutine is started
\* and the collecting loop entered
LaunchEnd ==
    /\ pc = "launch"
    /\ todo = {}
    /\ pc' = "collect"
    /\ UNCHANGED <<e, name, r, i, todo, exec, calls, conc, returned>>

\* lines 104-105: the behaviour returns and its observation is sent on doneChan
\* (a send on a full doneChan would block)
BehaviorReturn ==
    /\ pc # "panic"
    /\ \E bname \in e.behaviors :
         /\ inner[bname] = "running"
         /\ Len(doneChan[bname]) < 1
         /\ \E out \in BehaviorOutcomes(bname) :
              /\ doneChan' = [doneChan EXCEPT ![bname] = <<observe(bname, out)>>]
              /\ returned' = [returned EXCEPT ![bname] = out]
         /\ inner' = [inner EXCEPT ![bname] = "exit"]
    /\ UNCHANGED <<e, name, r, pc, i, todo, exec, calls, wrapper, ctxDone, resultChan,
                   closed, wg, ci>>

\* line 249 in a goroutine: the behaviour panics; nothing recovers, the process dies
BehaviorPanic ==
    /\ pc # "panic"
    /\ \E bname \in e.behaviors : inner[bname] = "running"
    /\ Panicked

\* lines 99, 168-169: the deadline of a behaviour's context passes
TimeoutFires ==
    /\ pc # "panic"
    /\ e.timeout
    /\ \E bname \in e.behaviors :
         /\ wrapper[bname] = "select"
         /\ ~ctxDone[bname]
         /\ ctxDone' = [ctxDone EXCEPT ![bname] = TRUE]
    /\ UNCHANGED <<e, name, r, pc, i, todo, exec, calls, wrapper, inner, doneChan,
                   resultChan, closed, wg, ci, returned>>

\* lines 109-110, 94, 100: the select receives the observation and forwards it;
\* the deferred cancel and wg.Done run
SelectObservation ==
    /\ pc # "panic"
    /\ \E bname \in e.behaviors :
         /\ wrapper[bname] = "select"
         /\ doneChan[bname] # <<>>
         /\ Len(resultChan) < numBehaviors
         /\ resultChan' = Append(resultChan, observationResult(bname, Head(doneChan[bname])))
         /\ doneChan' = [doneChan EXCEPT ![bname] = Tail(doneChan[bname])]
         /\ wrapper' = [wrapper EXCEPT ![bname] = "sent_obs"]
         /\ ctxDone' = [ctxDone EXCEPT ![bname] = TRUE]
    /\ wg' = wg - 1
    /\ UNCHANGED <<e, name, r, pc, i, todo, exec, calls, inner, closed, ci, returned>>

\* lines 111-119, 94, 100: the select takes ctx.Done() and sends the timeout record
SelectTimeout ==
    /\ pc # "panic"
    /\ \E bname \in e.behaviors :
         /\ wrapper[bname] = "select"
         /\ ctxDone[bname]
         /\ Len(resultChan) < numBehaviors
         /\ resultChan' = Append(resultChan, timeoutResult(bname))
         /\ wrapper' = [wrapper EXCEPT ![bname] = "sent_timeout"]
    /\ wg' = wg - 1
    /\ UNCHANGED <<e, name, r, pc, i, todo, exec, calls, inner, doneChan, ctxDone,
                   closed, ci, returned>>

\* lines 124-127 without line 125: resultChan is closed without waiting for
\* the goroutines of the behaviours
CloseResultChanNoWait ==
    /\ pc = "collect"
    /\ ~closed
    /\ closed' = TRUE
    /\ UNCHANGED <<e, name, r, pc, i, todo, exec, calls, wrapper, inner, doneChan,
                   ctxDone, resultChan, wg, ci, returned>>

\* lines 124-127: wg.Wait() returns and resultChan is closed
CloseResultChan ==
    /\ pc = "collect"
    /\ wg = 0
    /\ ~closed
    /\ closed' = TRUE
    /\ UNCHANGED <<e, name, r, pc, i, todo, exec, calls, wrapper, inner, doneChan,
                   ctxDone, resultChan, wg, ci, returned>>

\* lines 130-144: one round of the collecting loop; a store past the end of
\* r.Candidates panics
Collect ==
    /\ pc = "collect"
    /\ resultChan # <<>>
    /\ LET res == Head(resultChan)
           errs == IF res.err # NilErr
                   THEN Append(r.Errors, resultErr("timeout", res.err))
                   ELSE r.Errors
           rest == <<e, name, todo, exec, calls, wrapper, inner, doneChan, ctxDone,
                     closed, wg, ci, returned>>
       IN  IF res.name = name
           THEN /\ r' = [r EXCEPT !.Errors = errs,
                                  !.Control = res.obs,
                                  !.Observations[1] = res.obs]
                /\ resultChan' = Tail(resultChan)
                /\ UNCHANGED <<pc, i, rest>>
           ELSE IF i >= Len(r.Candidates)
           THEN Panicked
           ELSE /\ r' = [r EXCEPT !.Errors = errs,
                                  !.Candidates[i + 1] = res.obs,
                                  !.Observations[i + 2] = res.obs]
                /\ resultChan' = Tail(resultChan)
                /\ i' = i + 1
                /\ UNCHANGED <<pc, rest>>

\* line 130 as a receive that does not wait: the collecting loop ends as soon
\* as resultChan is empty, closed or not
CollectEndWhenEmpty ==
    /\ pc = "collect"
    /\ resultChan = <<>>
    /\ pc' = "classify"
    /\ UNCHANGED <<e, name, r, i, todo, exec, calls, conc, returned>>

\* line 130: resultChan is closed and drained, the range over it ends
CollectEnd ==
    /\ pc = "collect"
    /\ resultChan = <<>>
    /\ closed
    /\ pc' = "classify"
    /\ UNCHANGED <<e, name, r, i, todo, exec, calls, conc, returned>>

\* lines 146-150: one round of the range over r.Candidates; processObservation
\* dereferences control, so a nil r.Control panics
Classify ==
    /\ pc = "classify"
    /\ ci < Len(r.Candidates)
    /\ LET candidate == r.Candidates[ci + 1]
           rest == <<e, name, i, todo, exec, wrapper, inner, doneChan, ctxDone,
                     resultChan, closed, wg, returned>>
       IN  IF candidate = NilObs
           THEN /\ ci' = ci + 1
                /\ UNCHANGED <<r, calls, pc, rest>>
           ELSE IF r.Control = NilObs
           THEN Panicked
           ELSE LET p == processObservation(e, r, r.Control, candidate)
                IN  /\ r' = p.r
                    /\ calls' = calls \o p.calls
                    /\ ci' = ci + 1
                    /\ UNCHANGED <<pc, rest>>

\* line 150: the range over r.Candidates ends
ClassifyEnd ==
    /\ pc = "classify"
    /\ ci = Len(r.Candidates)
    /\ pc' = "publish"
    /\ UNCHANGED <<e, name, r, i, todo, exec, calls, conc, returned>>

\* lines 153-155: e.publisher(r)
Publish ==
    /\ pc = "publish"
    /\ \E err \in {NilErr, newError("publish", "publish")} :
         r' = [r EXCEPT !.Errors = IF err # NilErr
                                   THEN Append(r.Errors, resultErr("publish", err))
                                   ELSE r.Errors]
    /\ calls' = Append(calls, [fn |-> "publish", result |-> r])
    /\ pc' = "report"
    /\ UNCHANGED <<e, name, i, todo, exec, conc, returned>>

\* lines 157-161: e.errorReporter(r.Errors...) when errors accumulated; return r
Report ==
    /\ pc = "report"
    /\ calls' = IF Len(r.Errors) > 0
                THEN Append(calls, [fn |-> "report", errors |-> r.Errors])
                ELSE calls
    /\ pc' = "done"
    /\ UNCHANGED <<e, name, r, i, todo, exec, conc, returned>>

Next ==
    \/ BeforeRun
    \/ SeqControlCall
    \/ SeqControlReturn
    \/ SeqPanic
    \/ SeqCandidateCall
    \/ SeqCandidateReturn
    \/ SeqLoopEnd
    \/ Launch
    \/ LaunchEnd
    \/ BehaviorReturn
    \/ BehaviorPanic
    \/ TimeoutFires
    \/ SelectObservation
    \/ SelectTimeout
    \/ CloseResultChan
    \/ Collect
    \/ CollectEnd
    \/ Classify
    \/ ClassifyEnd
    \/ Publish
    \/ Report

Spec == Init /\ [][Next]_vars

(***************************************************************************)
(* Run called with a control name that no behaviour is registered under,   *)
(* the behaviours all returning.                                           *)
(***************************************************************************)
\* a name that e.behaviors does not hold
absentBehavior == "absent"

\* the state when Run(e, absentBehavior) is entered
InitAbsent ==
    /\ \E cfg \in RunConfigs, mode \in {"sequential", "concurrent", "timeout"} :
         e = [behaviors |-> RegisteredNames,
              comparator |-> cfg.comparator,
              ignores |-> cfg.ignores,
              runConcurrently |-> mode # "sequential",
              timeout |-> mode = "timeout"]
    /\ name = absentBehavior
    /\ r = EmptyResult
    /\ pc = "before_run"
    /\ i = 0
    /\ todo = {}
    /\ exec = NIL
    /\ calls = <<>>
    /\ returned = [b \in RegisteredNames |-> NoOutcome]
    /\ wrapper = [b \in RegisteredNames |-> "none"]
    /\ inner = [b \in RegisteredNames |-> "none"]
    /\ doneChan = [b \in RegisteredNames |-> <<>>]
    /\ ctxDone = [b \in RegisteredNames |-> FALSE]
    /\ resultChan = <<>>
    /\ closed = FALSE
    /\ wg = 0
    /\ ci = 0

\* the steps such a run takes
NextAbsent ==
    \/ BeforeRun
    \/ SeqControlCall
    \/ SeqCandidateCall
    \/ SeqCandidateReturn
    \/ Launch
    \/ LaunchEnd
    \/ BehaviorReturn
    \/ TimeoutFires
    \/ SelectObservation
    \/ SelectTimeout
    \/ CloseResultChan
    \/ Collect

SpecAbsent == InitAbsent /\ [][NextAbsent]_vars

(***************************************************************************)
(* Classification on its own: processObservation applied, by the loop of   *)
(* lines 146-150, to every pair of observations the collecting loop can    *)
(* leave in r.Control and r.Candidates, under every comparator and every   *)
(* list of ignore predicates.                                              *)
(***************************************************************************)
\* what a call b() can return: any value, nil included, with or without an error
ClassifyOutcomes(bname) ==
    {[v |-> v, err |-> er] :
        v \in Values \cup {NIL},
        er \in {NilErr} \cup {newError(bname, t) : t \in ErrTexts}}

\* the observation Run collected for a behaviour: out, or the timeout record
collected(bname, out) ==
    IF out = NoOutcome THEN timeoutResult(bname).obs ELSE observe(bname, out)

\* the state after the collecting loop (line 144) of a concurrent run with a
\* timeout, of a control and one candidate that each completed or timed out
InitClassify ==
    /\ \E cmp \in Comparators, ign \in IgnoreLists :
         e = [behaviors |-> {controlBehavior, CandidateNames[1]},
              comparator |-> cmp,
              ignores |-> ign,
              runConcurrently |-> TRUE,
              timeout |-> TRUE]
    /\ name = controlBehavior
    /\ \E oc \in ClassifyOutcomes(controlBehavior) \cup {NoOutcome},
          od \in ClassifyOutcomes(CandidateNames[1]) \cup {NoOutcome} :
         /\ returned = [b \in RegisteredNames |->
                          IF b = controlBehavior THEN oc
                          ELSE IF b = CandidateNames[1] THEN od ELSE NoOutcome]
         /\ r = [Control |-> collected(controlBehavior, oc),
                 Observations |-> <<collected(controlBehavior, oc),
                                    collected(CandidateNames[1], od)>>,
                 Candidates |-> <<collected(CandidateNames[1], od)>>,
                 Ignored |-> <<>>,
                 Mismatched |-> <<>>,
                 Errors |-> (IF oc = NoOutcome
                             THEN <<resultErr("timeout", deadlineExceeded)>> ELSE <<>>)
                            \o (IF od = NoOutcome
                                THEN <<resultErr("timeout", deadlineExceeded)>> ELSE <<>>)]
    /\ pc = "classify"
    /\ i = 1
    /\ ci = 0
    /\ todo = {}
    /\ exec = NIL
    /\ calls = <<[fn |-> "before_run", err |-> NilErr]>>
    /\ wrapper = [b \in RegisteredNames |->
                    IF b \notin e.behaviors THEN "none"
                    ELSE IF returned[b] = NoOutcome THEN "sent_timeout" ELSE "sent_obs"]
    /\ inner = [b \in RegisteredNames |->
                  IF b \notin e.behaviors THEN "none"
                  ELSE IF returned[b] = NoOutcome THEN "running" ELSE "exit"]
    /\ doneChan = [b \in RegisteredNames |-> <<>>]
    /\ ctxDone = [b \in RegisteredNames |-> b \in e.behaviors]
    /\ resultChan = <<>>
    /\ closed = TRUE
    /\ wg = 0

NextClassify ==
    \/ Classify
    \/ ClassifyEnd
    \/ Publish
    \/ Report

SpecClassify == InitClassify /\ [][NextClassify]_vars

(***************************************************************************)
(* Properties                                                              *)
(***************************************************************************)
\* the select of behaviour b took the ctx.Done() case: b timed out
TimedOut(b) == wrapper[b] = "sent_timeout"

\* the select of behaviour b took the doneChan case: b completed in time
Completed(b) == wrapper[b] = "sent_obs"

\* the message of behaviour b has been received by the collecting loop
Collected(b) ==
    /\ wrapper[b] \in {"sent_obs", "sent_timeout"}
    /\ \A k \in 1..Len(resultChan) : resultChan[k].name # b

\* the names of the observations of a list
NamesOf(list) == {list[k].Name : k \in 1..Len(list)}

\* the operations of the errors of a list
Operations(errs) == [k \in 1..Len(errs) |-> errs[k].Operation]

\* the calls of callback fn made so far
CallsOf(fn) == SelectSeq(calls, LAMBDA c : c.fn = fn)

\* C1: whenever r.Control is set and the control did not time out, r.Control
\* is the control's own observation, holding exactly the value and the error
\* its call returned; r.Control never carries another behaviour's name; and a
\* Result that Run returns after the control completed has r.Control set.
C1_ControlIsAuthoritative ==
    /\ r.Control # NilObs => r.Control.Name = name
    /\ (r.Control # NilObs /\ ~TimedOut(name)) =>
          /\ returned[name] # NoOutcome
          /\ r.Control.Value = returned[name].v
          /\ r.Control.Err = returned[name].err
    /\ (pc \in {"publish", "report", "done"} /\ ~TimedOut(name)) => r.Control # NilObs

\* C1 witness: a concurrent run returned with the control completed, a
\* candidate timed out, a candidate mismatched and a publish error recorded
C1_Witness ==
    /\ pc = "done"
    /\ Completed(name)
    /\ \E b \in e.behaviors : TimedOut(b)
    /\ IsMismatched(r)
    /\ \E k \in 1..Len(r.Errors) : r.Errors[k].Operation = "publish"
    /\ r.Control.Value = "2"

\* C2: observe never raises: no fault inside a behaviour unwinds Run or kills
\* the process, so no run ends in a panic.
C2_ObserveNeverRaises == pc # "panic"

\* the candidates that have been classified so far
ClassifiedNames ==
    IF e.runConcurrently
    THEN {r.Candidates[k].Name : k \in 1..ci}
    ELSE {r.Candidates[k].Name : k \in 1..i}

\* the observation in the Result is the one b's own call produced
ReturnedInRun(b) ==
    IF e.runConcurrently THEN Completed(b) ELSE returned[b] # NoOutcome

\* the comparator accepts the values the control and candidate b returned
Accepts(b) ==
    LET c == comparator(e.comparator, returned[name].v, returned[b].v)
    IN  c.ok /\ c.err = NilErr

\* no ignore predicate accepts the values the control and candidate b returned
NoIgnoreAccepts(b) ==
    \A k \in 1..Len(e.ignores) :
        ~ignoreFn(e.ignores[k], returned[name].v, returned[b].v).ok

\* C3: a classified candidate that, like the control, returned no error is in
\* neither Ignored nor Mismatched exactly when the comparator accepts the two
\* values, and is in Mismatched and not in Ignored when the comparator rejects
\* them and no ignore predicate accepts them; and when every behaviour
\* returned the same value without error under the equality comparator, the
\* Result handed to publish has empty Ignored and Mismatched and is matched.
C3_ClassificationFollowsComparator ==
    /\ \A b \in ClassifiedNames :
         (/\ ReturnedInRun(name) /\ ReturnedInRun(b)
          /\ returned[name].err = NilErr /\ returned[b].err = NilErr)
         => /\ Accepts(b) <=>
                 (b \notin NamesOf(r.Ignored) /\ b \notin NamesOf(r.Mismatched))
            /\ (~Accepts(b) /\ NoIgnoreAccepts(b)) =>
                 (b \in NamesOf(r.Mismatched) /\ b \notin NamesOf(r.Ignored))
    /\ (/\ pc \in {"publish", "report", "done"}
        /\ e.comparator = "equal"
        /\ \A b \in e.behaviors :
             /\ ReturnedInRun(b)
             /\ returned[b].err = NilErr
             /\ returned[b].v = returned[name].v)
       => (r.Ignored = <<>> /\ r.Mismatched = <<>> /\ IsMatched(r))

\* C3 witness: a run returned in which, with no error anywhere, one candidate
\* matched the control and another was mismatched
C3_Witness ==
    /\ pc = "done"
    /\ e.comparator = "equal"
    /\ \A b \in e.behaviors : ReturnedInRun(b) /\ returned[b].err = NilErr
    /\ \E b1, b2 \in ClassifiedNames :
         /\ Accepts(b1)
         /\ b1 \notin NamesOf(r.Ignored) \cup NamesOf(r.Mismatched)
         /\ ~Accepts(b2)
         /\ b2 \in NamesOf(r.Mismatched)

\* the single candidate of SpecClassify has been classified and is in
\* neither list
MatchedAlone == ci = 1 /\ r.Ignored = <<>> /\ r.Mismatched = <<>>

\* C4: once the candidate is classified: if both observations carry errors it
\* matched exactly when the two error texts are equal, and the comparator was
\* not called; if exactly one carries an error it did not match, whatever the
\* comparator would return.
C4_ErrorsMatchByText ==
    ci = 1 =>
      LET c == r.Control
          d == r.Candidates[1]
      IN  /\ (c.Err # NilErr /\ d.Err # NilErr) =>
                /\ MatchedAlone <=> (c.Err.msg = d.Err.msg)
                /\ CallsOf("compare") = <<>>
          /\ ((c.Err # NilErr) # (d.Err # NilErr)) =>
                /\ ~MatchedAlone
                /\ CallsOf("compare") = <<>>

\* C4 witness: two distinct error objects with the same text matched under a
\* comparator that rejects every pair
C4_Witness ==
    /\ MatchedAlone
    /\ e.comparator = "false"
    /\ r.Control.Err # NilErr
    /\ r.Candidates[1].Err # NilErr
    /\ r.Control.Err # r.Candidates[1].Err
    /\ r.Control.Value # r.Candidates[1].Value

\* predicate k of e.ignores accepts the pair SpecClassify classifies
IgnoreAccepts(k) ==
    LET g == ignoreFn(e.ignores[k], r.Control.Value, r.Candidates[1].Value)
    IN  g.ok /\ g.err = NilErr

\* predicate k of e.ignores rejects the pair without an error
IgnoreRejects(k) ==
    LET g == ignoreFn(e.ignores[k], r.Control.Value, r.Candidates[1].Value)
    IN  ~g.ok /\ g.err = NilErr

\* C5: once the candidate is classified: no ignore predicate was evaluated if
\* matching succeeded; otherwise the predicates were evaluated from the first
\* on, in registration order, each only after all earlier ones returned
\* false; a predicate that returned true is the last one evaluated and the
\* candidate is in Ignored.
C5_IgnoresInOrderFirstTrueWins ==
    ci = 1 =>
      LET d == r.Candidates[1]
          m == matching(e, r.Control, d)
          ig == CallsOf("ignore")
      IN  /\ (m.ok /\ m.err = NilErr) => ig = <<>>
          /\ ~(m.ok /\ m.err = NilErr) => Len(ig) >= (IF Len(e.ignores) > 0 THEN 1 ELSE 0)
          /\ Len(ig) <= Len(e.ignores)
          /\ \A k \in 1..Len(ig) :
               /\ ig[k].idx = k
               /\ ig[k].cand = d.Name
               /\ k < Len(ig) => IgnoreRejects(k)
               /\ IgnoreAccepts(k) => (k = Len(ig) /\ d.Name \in NamesOf(r.Ignored))
          /\ (Len(ig) > 0 /\ Len(ig) < Len(e.ignores)) => ~IgnoreRejects(Len(ig))

\* C5 witness: the first of several predicates returned true; it alone was
\* evaluated, although a later one would have raised an error, and the
\* candidate is in Ignored
C5_Witness ==
    /\ ci = 1
    /\ Len(e.ignores) >= 2
    /\ IgnoreAccepts(1)
    /\ e.ignores[2] = "error"
    /\ Len(CallsOf("ignore")) = 1
    /\ r.Candidates[1].Name \in NamesOf(r.Ignored)

\* C6: every observation of the Result that belongs to a behaviour which
\* timed out has an empty value and an error in its own Err field.
C6_TimedOutObservationCarriesError ==
    \A k \in 1..Len(r.Observations) :
        LET o == r.Observations[k]
        IN  (o # NilObs /\ TimedOut(o.Name)) => (o.Value = NIL /\ o.Err # NilErr)

\* the number of errors of r.Errors with operation `timeout`
TimeoutErrors == Cardinality({k \in 1..Len(r.Errors) : r.Errors[k].Operation = "timeout"})

\* C7: in concurrent mode r.Errors holds as many `timeout` errors as there are
\* collected behaviours that timed out (one each, none for a behaviour that
\* completed); and when before_run returned no error and some collected
\* behaviour timed out, the first error of r.Errors is a `timeout` error.
C7_OneTimeoutErrorPerTimeout ==
    e.runConcurrently =>
      /\ TimeoutErrors = Cardinality({b \in e.behaviors : TimedOut(b) /\ Collected(b)})
      /\ (/\ TimeoutErrors > 0
          /\ \A k \in 1..Len(calls) : calls[k].fn = "before_run" => calls[k].err = NilErr)
         => r.Errors[1].Operation = "timeout"

\* C7 witness: a run returned in which one behaviour completed, the others
\* timed out, and an error of another operation follows the timeout errors
C7_Witness ==
    /\ pc = "done"
    /\ \E b \in e.behaviors : Completed(b)
    /\ TimeoutErrors = Cardinality(e.behaviors) - 1
    /\ TimeoutErrors >= 2
    /\ Len(r.Errors) > TimeoutErrors
    /\ r.Errors[1].Operation = "timeout"

\* the candidates in the order they were registered
CandidatesAsRegistered == SelectSeq(Registered, LAMBDA b : b # name)

\* C8: in concurrent mode, once the collecting loop has ended, r.Candidates
\* lists the candidates in registration order.
C8_CandidatesInRegistrationOrder ==
    (e.runConcurrently /\ pc \in {"classify", "publish", "report", "done"}) =>
        [k \in 1..Len(r.Candidates) |-> r.Candidates[k].Name] = CandidatesAsRegistered

\* Run has ended: it returned its Result or a panic unwound it
RunEnded == pc \in {"done", "panic"}

\* C9: the publish sink is called at most once; a run that has ended called
\* it exactly once, after every candidate was classified, with a Result whose
\* Candidates holds one non-nil entry per registered non-control behaviour;
\* and an error of the sink is in Errors as a `publish` error of a run that
\* went on to return.
C9_PublishedExactlyOnce ==
    LET pub == CallsOf("publish")
    IN  /\ Len(pub) <= 1
        /\ RunEnded =>
             /\ Len(pub) = 1
             /\ Len(pub[1].result.Candidates) = Cardinality(e.behaviors \ {name})
             /\ \A k \in 1..Len(pub[1].result.Candidates) :
                    pub[1].result.Candidates[k] # NilObs
             /\ NamesOf(pub[1].result.Candidates) = e.behaviors \ {name}
             /\ pub[1].result.Ignored = r.Ignored
             /\ pub[1].result.Mismatched = r.Mismatched

\* an operation error was accumulated during the run
ErrorsAccumulated ==
    \/ r.Errors # <<>>
    \/ \E k \in 1..Len(calls) : calls[k].fn = "before_run" /\ calls[k].err # NilErr

\* C10: the error-report sink is called at most once and only after publish;
\* a run that has ended called it if and only if an operation error was
\* accumulated, and then with the whole of r.Errors.
C10_ReportedIffErrors ==
    LET rep == CallsOf("report")
    IN  /\ Len(rep) <= 1
        /\ Len(rep) = 1 =>
             /\ calls[Len(calls)].fn = "report"
             /\ calls[Len(calls) - 1].fn = "publish"
             /\ rep[1].errors = r.Errors
        /\ RunEnded => (Len(rep) = 1 <=> ErrorsAccumulated)

\* Run has reached line 153 or gone past it: the Result is classified
Classified == pc \in {"publish", "report", "done"}

\* C11: Ignored and Mismatched hold only observations of Candidates, no
\* candidate twice across the two lists (so the lists are disjoint); and once
\* the run is classified, a candidate in neither list is one for which
\* matching against r.Control succeeded.
C11_IgnoredMismatchedPartition ==
    LET both == r.Ignored \o r.Mismatched
    IN  /\ \A k \in 1..Len(both) :
             /\ both[k] # NilObs
             /\ \E j \in 1..Len(r.Candidates) : r.Candidates[j] = both[k]
        /\ \A j, k \in 1..Len(both) : both[j].Name = both[k].Name => j = k
        /\ Classified =>
             \A k \in 1..Len(r.Candidates) :
                 r.Candidates[k].Name \notin NamesOf(both) =>
                     LET m == matching(e, r.Control, r.Candidates[k])
                     IN  m.ok /\ m.err = NilErr

\* C11 witness: a run returned with one candidate ignored and another in
\* neither list
C11_Witness ==
    /\ pc = "done"
    /\ Len(r.Ignored) = 1
    /\ r.Mismatched = <<>>
    /\ \E k \in 1..Len(r.Candidates) :
         /\ r.Candidates[k] # NilObs
         /\ r.Candidates[k].Name \notin NamesOf(r.Ignored)

\* before_run returned an error in this run
BeforeRunErred ==
    \E k \in 1..Len(calls) : calls[k].fn = "before_run" /\ calls[k].err # NilErr

\* the function of behaviour b has been called
Started(b) == exec = b \/ inner[b] # "none" \/ returned[b] # NoOutcome

\* the state of C12 at every moment of a run
BeforeRunOnceInv ==
    /\ Len(CallsOf("before_run")) = (IF pc = "before_run" THEN 0 ELSE 1)
    /\ pc # "before_run" => calls[1].fn = "before_run"
    /\ \A b \in e.behaviors : Started(b) => Len(CallsOf("before_run")) = 1
    /\ pc \notin {"before_run", "panic"} =>
         /\ BeforeRunErred <=> (r.Errors # <<>> /\ r.Errors[1].Operation = "before_run")
         /\ \A k \in 2..Len(r.Errors) : r.Errors[k].Operation # "before_run"
    /\ (pc = "done" /\ BeforeRunErred) =>
         /\ \A b \in e.behaviors : Started(b)
         /\ ClassifiedNames = e.behaviors \ {name}
         /\ Len(CallsOf("publish")) = 1
         /\ CallsOf("publish")[1].result.Errors[1].Operation = "before_run"

\* C12: before_run is called exactly once, as the first callback and before
\* any behaviour's function is called; its error is recorded as the first
\* error of r.Errors and nowhere else; the step that calls it leaves Run in
\* the same state whether it returned an error or not, r.Errors apart; and a
\* run that returned after such an error called every behaviour, classified
\* every candidate and published once.
C12_BeforeRunOnceAndFirst ==
    /\ []BeforeRunOnceInv
    /\ [][BeforeRun =>
            /\ pc' = (IF e.runConcurrently THEN "launch" ELSE "control")
            /\ todo' = e.behaviors
            /\ [r' EXCEPT !.Errors = <<>>] =
                 [r EXCEPT !.Candidates = [k \in 1..(numBehaviors - 1) |-> NilObs],
                           !.Observations = [k \in 1..numBehaviors |-> NilObs]]
            /\ <<i, exec, returned, conc>>' = <<i, exec, returned, conc>>]_vars

\* C12 witness: a run returned whose before_run failed, with every behaviour
\* called, a candidate mismatched and the Result published
C12_Witness ==
    /\ pc = "done"
    /\ BeforeRunErred
    /\ \A b \in e.behaviors : returned[b] # NoOutcome
    /\ IsMismatched(r)
    /\ Len(CallsOf("publish")) = 1

\* the function of behaviour b is executing in its goroutine
Executing(b) == inner[b] = "running"

\* C13: in concurrent mode the launching loop can always launch its next
\* behaviour, whatever the behaviours launched before are doing; and once the
\* loop has ended every registered behaviour, the control included, has been
\* launched, whether or not any other has completed.
C13_LaunchedWithoutWaiting ==
    e.runConcurrently =>
      /\ (pc = "launch" /\ todo # {}) => ENABLED Launch
      /\ pc = "launch" => \A b \in e.behaviors \ todo : inner[b] # "none"
      /\ pc \in {"collect", "classify", "publish", "report", "done"} =>
             \A b \in e.behaviors : inner[b] # "none"

\* C13 witness: the launching loop has ended and all behaviours are executing
\* at the same time, none having completed
C13_Witness ==
    /\ e.runConcurrently
    /\ pc = "collect"
    /\ \A b \in e.behaviors : Executing(b) /\ returned[b] = NoOutcome
    /\ Cardinality(e.behaviors) >= 3

\* the behaviours whose function is executing, in Run's goroutine or another
ExecutingNow == {b \in e.behaviors : exec = b \/ Executing(b)}

\* candidate observation c has its classification in the Result: it is in
\* Ignored or in Mismatched, or matching it against r.Control succeeds
HasClassification(c) ==
    \/ c.Name \in NamesOf(r.Ignored) \cup NamesOf(r.Mismatched)
    \/ LET m == matching(e, r.Control, c) IN m.ok /\ m.err = NilErr

\* C14: in sequential mode at most one behaviour is executing; a candidate is
\* called only after the control returned and its observation is in
\* r.Control; and while a candidate is executing, and whenever Run is between
\* candidates, every candidate that returned before is stored, in the order
\* of the calls, and classified against r.Control, and no other candidate is
\* in Ignored or Mismatched.
C14_SequentialOneAtATime ==
    (~e.runConcurrently /\ pc # "panic") =>
      /\ Cardinality(ExecutingNow) <= 1
      /\ \A b \in e.behaviors \ {name} :
             Started(b) => /\ returned[name] # NoOutcome
                           /\ r.Control = observe(name, returned[name])
                           /\ exec # name
      /\ LET done == {b \in e.behaviors \ {name} : returned[b] # NoOutcome}
         IN  /\ i = Cardinality(done)
             /\ {r.Candidates[k].Name : k \in 1..i} = done
             /\ \A k \in 1..i :
                    /\ r.Candidates[k] = observe(r.Candidates[k].Name,
                                                 returned[r.Candidates[k].Name])
                    /\ HasClassification(r.Candidates[k])
             /\ NamesOf(r.Ignored) \cup NamesOf(r.Mismatched) \subseteq done

\* C14 witness: the second candidate is executing while the first, already
\* returned, is in Mismatched
C14_Witness ==
    /\ ~e.runConcurrently
    /\ pc = "candidate_run"
    /\ i = 1
    /\ exec \notin {NIL, name}
    /\ Len(r.Mismatched) = 1
    /\ r.Mismatched[1] = r.Candidates[1]
    /\ returned[exec] = NoOutcome

\* the behaviours whose select has sent its message on resultChan
Sent == {b \in e.behaviors : Completed(b) \/ TimedOut(b)}

\* a candidate has been classified: the range of lines 146-150 has advanced,
\* or a comparator or ignore predicate was called, or a list is not empty
ClassificationBegun ==
    \/ ci > 0
    \/ CallsOf("compare") # <<>>
    \/ CallsOf("ignore") # <<>>
    \/ IsMismatched(r)
    \/ IsIgnored(r)

\* C15: in concurrent mode, when classification has begun every behaviour's
\* select has sent its message (completed or timed out), resultChan is closed
\* and every message is collected; when Run enters the range of lines 146-150
\* r.Control is the control's observation; the control is never handed to
\* the comparator or to an ignore predicate as a candidate, nor put in a list;
\* the comparator is called at most once per candidate; and once the range
\* has ended every candidate has its classification.
C15_ClassifiedAfterAllCollected ==
    (e.runConcurrently /\ pc # "panic") =>
      LET cmp == CallsOf("compare")
          ign == CallsOf("ignore")
      IN  /\ ClassificationBegun =>
                 /\ pc \in {"classify", "publish", "report", "done"}
                 /\ closed
                 /\ resultChan = <<>>
                 /\ Sent = e.behaviors
                 /\ name \notin {cmp[k].cand : k \in 1..Len(cmp)}
                 /\ name \notin {ign[k].cand : k \in 1..Len(ign)}
                 /\ Cardinality({cmp[k].cand : k \in 1..Len(cmp)}) = Len(cmp)
          /\ pc \in {"classify", "publish", "report", "done"} =>
                 /\ r.Control # NilObs
                 /\ r.Control.Name = name
                 /\ i = Cardinality(e.behaviors \ {name})
          /\ name \notin NamesOf(r.Candidates)
          /\ name \notin NamesOf(r.Ignored)
          /\ name \notin NamesOf(r.Mismatched)
          /\ Classified =>
                 /\ ci = Len(r.Candidates)
                 /\ NamesOf(r.Candidates) = e.behaviors \ {name}
                 /\ \A k \in 1..Len(r.Candidates) : HasClassification(r.Candidates[k])

\* C15 witness: a concurrent run has classified its candidates, one that
\* completed and one that timed out, the comparator called once for each
C15_Witness ==
    /\ e.runConcurrently
    /\ pc = "publish"
    /\ \E b1, b2 \in e.behaviors \ {name} : Completed(b1) /\ TimedOut(b2)
    /\ Completed(name)
    /\ Len(CallsOf("compare")) = Len(r.Candidates)
    /\ IsMismatched(r)

\* the comparator was called on the pair SpecClassify classifies and
\* returned an error
CompareErred ==
    /\ CallsOf("compare") # <<>>
    /\ comparator(e.comparator, r.Control.Value, r.Candidates[1].Value).err # NilErr

\* predicate k of e.ignores returns an error on the pair
IgnoreErrs(k) ==
    ignoreFn(e.ignores[k], r.Control.Value, r.Candidates[1].Value).err # NilErr

\* the last ignore predicate that was called returned an error
IgnoreErred ==
    LET ig == CallsOf("ignore")
    IN  ig # <<>> /\ IgnoreErrs(ig[Len(ig)].idx)

\* the operations of r.Errors that classification recorded
ClassifyOperations ==
    SelectSeq(Operations(r.Errors), LAMBDA op : op \in {"compare", "ignore"})

\* C16: once the candidate is classified: a comparator error is recorded as
\* one `compare` error, the candidate did not match and the ignore
\* predicates were evaluated from the first on; an ignore predicate that
\* returned an error is the last one evaluated, its error is recorded as one
\* `ignore` error and the candidate is in Mismatched, not in Ignored; with
\* both, r.Errors holds the `compare` error and then the `ignore` error; no
\* other `compare` or `ignore` error is recorded; and Run goes on to publish
\* and returns.
C16_ClassificationErrorsAccumulate ==
    /\ pc # "panic"
    /\ ci = 1 =>
         LET d == r.Candidates[1]
             ig == CallsOf("ignore")
         IN  /\ CompareErred =>
                   /\ ~MatchedAlone
                   /\ Len(e.ignores) > 0 => (ig # <<>> /\ ig[1].idx = 1)
             /\ \A k \in 1..Len(ig) :
                   IgnoreErrs(ig[k].idx) =>
                       /\ k = Len(ig)
                       /\ r.Mismatched = <<d>>
                       /\ r.Ignored = <<>>
             /\ ClassifyOperations =
                    (IF CompareErred THEN <<"compare">> ELSE <<>>)
                        \o (IF IgnoreErred THEN <<"ignore">> ELSE <<>>)
    /\ pc = "done" =>
         /\ Len(CallsOf("publish")) = 1
         /\ SelectSeq(Operations(CallsOf("publish")[1].result.Errors),
                      LAMBDA op : op \in {"compare", "ignore"}) = ClassifyOperations

\* C16 witness: a run returned in which the comparator returned true with an
\* error and the second ignore predicate returned an error; both errors are
\* in r.Errors and the candidate is in Mismatched
C16_Witness ==
    /\ pc = "done"
    /\ e.comparator = "trueError"
    /\ CompareErred
    /\ Len(CallsOf("ignore")) = 2
    /\ IgnoreErred
    /\ ClassifyOperations = <<"compare", "ignore">>
    /\ r.Mismatched = <<r.Candidates[1]>>

\* the steps of a concurrent run that need no behaviour to return: those of
\* Run's goroutine, of the selects, of the timers and of the closer goroutine
RunProgress ==
    \/ BeforeRun
    \/ Launch
    \/ LaunchEnd
    \/ TimeoutFires
    \/ SelectObservation
    \/ SelectTimeout
    \/ CloseResultChan
    \/ Collect
    \/ CollectEnd
    \/ Classify
    \/ ClassifyEnd
    \/ Publish
    \/ Report

\* C17: a concurrent run with a timeout that has not returned can always take
\* a step that waits for no behaviour to return, so that it reaches publish
\* and returns whatever the behaviours do; and the observation the Result
\* holds for a behaviour that timed out is the timeout record, never what
\* the behaviour returned afterwards.
C17_TimeoutRunTerminates ==
    (e.runConcurrently /\ e.timeout) =>
      /\ pc = "done" \/ ENABLED RunProgress
      /\ \A k \in 1..Len(r.Observations) :
             LET o == r.Observations[k]
             IN  (o # NilObs /\ TimedOut(o.Name)) => o = timeoutResult(o.Name).obs

\* C18: a run whose control name is not registered never panics: no store
\* goes past the end of r.Candidates and no nil r.Control is dereferenced;
\* and from the control's turn on (sequential mode) r.Control is the
\* behaviour-not-found observation, with no value.
C18_AbsentControlCompletes ==
    name \notin e.behaviors =>
      /\ pc # "panic"
      /\ (~e.runConcurrently /\ pc \notin {"before_run", "control"}) =>
             r.Control = observeMissing(name)

\* the behaviours whose goroutine is at its select
Selecting == {b \in e.behaviors : wrapper[b] = "select"}

\* the behaviours that have a message in resultChan
InChan == {resultChan[k].name : k \in 1..Len(resultChan)}

\* the number of messages the collecting loop has received
Received == i + (IF r.Control # NilObs THEN 1 ELSE 0)

\* C19: in concurrent mode, at every state of every interleaving: a behaviour
\* has at most one message in resultChan, and one only after its select
\* sent; the behaviours whose message was received are those that sent and
\* have none in resultChan, so that each contributes one message; resultChan
\* always has room for the message of every behaviour still at its select,
\* and doneChan is empty while its behaviour is executing, so that no send
\* blocks; resultChan is closed only when every behaviour has sent; and
\* after the collecting loop exactly as many messages were received as
\* behaviours are registered.
C19_OneMessagePerBehavior ==
    (e.runConcurrently /\ pc # "panic") =>
      LET sent == Sent
          inChan == InChan
          selecting == Cardinality(Selecting)
      IN  /\ Cardinality(inChan) = Len(resultChan)
          /\ inChan \subseteq sent
          /\ NamesOf(r.Observations) \ {NilObs.Name} = sent \ inChan
          /\ \A b \in e.behaviors :
                 /\ Len(doneChan[b]) <= 1
                 /\ Executing(b) => doneChan[b] = <<>>
          /\ Len(resultChan) + Received = Cardinality(sent)
          /\ Len(resultChan) + selecting <= numBehaviors
          /\ wg = selecting
          /\ closed => (sent = e.behaviors /\ todo = {})
          /\ pc \in {"classify", "publish", "report", "done"} =>
                 /\ Received = numBehaviors
                 /\ resultChan = <<>>
                 /\ closed

\* C19 witness: a behaviour has returned and its timeout has fired with its
\* select still waiting, both cases ready, while a second behaviour's select
\* has sent the timeout record and a third has forwarded its observation
C19_Witness ==
    /\ e.runConcurrently
    /\ pc = "collect"
    /\ \E b1, b2, b3 \in e.behaviors :
         /\ wrapper[b1] = "select"
         /\ doneChan[b1] # <<>>
         /\ ctxDone[b1]
         /\ TimedOut(b2)
         /\ Completed(b3)
    /\ Len(resultChan) + Received = 2

\* C20: once a candidate whose timeout fired is classified against a control
\* that completed in time without error, the candidate is in Ignored or in
\* Mismatched, and the comparator was not called on its empty value.
C20_TimedOutCandidateNeverMatches ==
    (/\ ci = 1
     /\ TimedOut(r.Candidates[1].Name)
     /\ Completed(name)
     /\ r.Control.Err = NilErr)
    => /\ ~MatchedAlone
       /\ CallsOf("compare") = <<>>

====
